---------------------------- MODULE Spec2Model ----------------------------
(***************************************************************************)
(* BagWatchBot: detection of Bags token launches and the per-token         *)
(* metadata/notification pipeline (main.py, with the detection entry       *)
(* points of main_hybrid.py and bags_telegram_bot.py).                     *)
(*                                                                         *)
(* Two asyncio tasks (monitor_websocket, monitor_polling) share one event  *)
(* loop.  A task keeps the loop from one await that really suspends to the *)
(* next one: `running` names the task that holds the loop (None when every *)
(* task is suspended on I/O or a sleep).  requests.post and the Selenium   *)
(* scrape are synchronous calls and never release the loop.                *)
(***************************************************************************)
EXTENDS Integers, Sequences, FiniteSets, TLC

(***************************************************************************)
(* Bounds of the model.                                                    *)
(***************************************************************************)
MaxChain == 3       \* transactions the tracked authority takes part in
MaxKeys == 3        \* account keys of an enumerated transaction
MaxLogs == 2        \* log lines of an enumerated transaction

(***************************************************************************)
(* Program constants.                                                      *)
(***************************************************************************)
MintKeyLen == 44    \* len(account) >= 44
PollLimit == 3      \* getSignaturesForAddress {"limit": 3}

None == "None"

BAGS_UPDATE_AUTHORITY == "BAGSB9TpGrZxQbEsrEznv5jXXdwyP6AXerN8aVRiAmcv"
METADATA_PROGRAM_ID == "metaqbxxUerdq28cj1RbAWkYQm3ybzjb6a8bt518x1s"
SystemProgram == "11111111111111111111111111111111"
MintA == "GxTkyDCftKD5PzbWkWg2NHcmcqspWbi31T5skXKEBAGS"
MintB == "Tok1mintBxxxxxxxxxxxxxxxxxxxxxxxxxxxxxxxBAGS"

Mints == {MintA, MintB}
Keys == {METADATA_PROGRAM_ID, BAGS_UPDATE_AUTHORITY, SystemProgram, MintA, MintB}

\* len(account) of the account keys above (base58 text length).
KeyLen(k) ==
    CASE k = BAGS_UPDATE_AUTHORITY -> 44
      [] k = METADATA_PROGRAM_ID -> 43
      [] k = SystemProgram -> 32
      [] k = MintA -> 44
      [] k = MintB -> 44

(***************************************************************************)
(* Log lines and the substring tests the detectors make on them.           *)
(***************************************************************************)
LogInvoke == "Program metaqbxxUerdq28cj1RbAWkYQm3ybzjb6a8bt518x1s invoke [1]"
LogCreate == "Program log: Instruction: CreateMetadataAccountV3"
LogUpper == "Program log: METAQ update"
LogTransfer == "Program log: Instruction: Transfer"

LogLines == {LogInvoke, LogCreate, LogUpper, LogTransfer}

\* str.lower() of a log line.
Lower(log) ==
    CASE log = LogInvoke -> "program metaqbxxuerdq28cj1rbawkyqm3ybzjb6a8bt518x1s invoke [1]"
      [] log = LogCreate -> "program log: instruction: createmetadataaccountv3"
      [] log = LogUpper -> "program log: metaq update"
      [] log = LogTransfer -> "program log: instruction: transfer"
      [] OTHER -> log

\* `needle in text` for the needles the detectors use.
Contains(text, needle) ==
    <<text, needle>> \in
        { <<LogInvoke, "metaq">>,
          <<Lower(LogInvoke), "metaq">>,
          <<Lower(LogCreate), "createmetadataaccount">>,
          <<Lower(LogUpper), "metaq">>,
          <<LogCreate, "CreateMetadataAccount">>,
          <<LogCreate, "CreateMetadataAccountV3">>,
          <<LogCreate, "Instruction: CreateMetadataAccount">> }

(***************************************************************************)
(* A transaction as getTransaction / logsNotification reports it.          *)
(***************************************************************************)
RECURSIVE SeqsUpTo(_, _)
SeqsUpTo(S, n) ==
    IF n = 0 THEN { <<>> }
    ELSE LET shorter == SeqsUpTo(S, n - 1)
         IN  shorter \cup { Append(s, x) : s \in { q \in shorter : Len(q) = n - 1 }, x \in S }

Errs == {None, "InstructionError"}

Tx(err, logs, keys) == [err |-> err, logs |-> logs, keys |-> keys]

AllTxs == { Tx(e, l, k) : e \in Errs, l \in SeqsUpTo(LogLines, MaxLogs), k \in SeqsUpTo(Keys, MaxKeys) }

InSeq(x, s) == \E i \in 1..Len(s) : s[i] = x

(***************************************************************************)
(* main.py / main_hybrid.py: check_transaction_for_token_creation, the     *)
(* part after the getTransaction response was read.                        *)
(***************************************************************************)
\* any("CreateMetadataAccount" in log or "metaq" in log.lower() for log in logs)
MetadataCreation(logs) ==
    \E i \in 1..Len(logs) :
        Contains(logs[i], "CreateMetadataAccount") \/ Contains(Lower(logs[i]), "metaq")

\* BAGS_UPDATE_AUTHORITY in account_keys
BagsInvolved(keys) == InSeq(BAGS_UPDATE_AUTHORITY, keys)

\* the condition of the `for account in account_keys` loop
QualifiesShort(account) ==
    /\ account # METADATA_PROGRAM_ID
    /\ account # BAGS_UPDATE_AUTHORITY

Qualifies(account) ==
    /\ account # METADATA_PROGRAM_ID
    /\ account # BAGS_UPDATE_AUTHORITY
    /\ KeyLen(account) >= MintKeyLen

\* for account in account_keys: if ...: await process_new_token(account); break
RECURSIVE MintLoop(_, _)
MintLoop(keys, i) ==
    IF i > Len(keys) THEN <<>>
    ELSE IF Qualifies(keys[i]) THEN <<keys[i]>>
    ELSE MintLoop(keys, i + 1)

\* transaction_data.get("meta", {}).get("err") is None
ErrIsNone(tx) == tx.err = None

\* The identifiers handed to process_new_token for one transaction, in order.
CheckTransaction(tx) ==
    IF ErrIsNone(tx)
    THEN IF MetadataCreation(tx.logs) /\ BagsInvolved(tx.keys)
         THEN MintLoop(tx.keys, 1)
         ELSE <<>>
    ELSE <<>>

(***************************************************************************)
(* bags_telegram_bot.py: on_websocket_message and parse_log_message.       *)
(***************************************************************************)
ParseKeywords ==
    { "CreateMetadataAccountV3", "CreateMetadataAccount", "Program metaq invoke",
      "CreateMasterEditionV3", "Instruction: CreateMetadataAccount" }

\* the first loop of parse_log_message
ParseMetadataCreation(logs) ==
    \E i \in 1..Len(logs) : \E kw \in ParseKeywords : Contains(logs[i], kw)

\* the loop over account_keys: [bags_involved, mint_candidate]
RECURSIVE ParseKeys(_, _, _, _)
ParseKeys(keys, i, bags, cand) ==
    IF i > Len(keys) THEN [bags |-> bags, cand |-> cand]
    ELSE IF keys[i] = BAGS_UPDATE_AUTHORITY THEN ParseKeys(keys, i + 1, TRUE, cand)
    ELSE IF keys[i] # METADATA_PROGRAM_ID /\ KeyLen(keys[i]) >= MintKeyLen /\ cand = None
         THEN ParseKeys(keys, i + 1, bags, keys[i])
    ELSE ParseKeys(keys, i + 1, bags, cand)

\* parse_log_message: the err field of the notification is never read
ParseLogMessage(tx) ==
    IF ~ParseMetadataCreation(tx.logs) THEN None
    ELSE LET r == ParseKeys(tx.keys, 1, FALSE, None)
         IN  IF r.bags /\ r.cand # None THEN r.cand ELSE None

\* on_websocket_message: the identifiers given to process_new_token
OnWebsocketMessage(tx) ==
    IF \E i \in 1..Len(tx.logs) : Contains(Lower(tx.logs[i]), "metaq")
    THEN LET m == ParseLogMessage(tx) IN IF m # None THEN <<m>> ELSE <<>>
    ELSE <<>>


(***************************************************************************)
(* main.py: the metadata adapters as process_new_token uses them.          *)
(***************************************************************************)
UnknownToken == "Unknown Token"
UnknownSymbol == "UNKNOWN"

\* What the Bags page shows once it loaded: the values the Selenium
\* extraction reads from it (absent values are None; an absent royalty
\* percentage is written 0, a value the extraction never stores).
\* tickers: the matches of \$([A-Z0-9]+) in the page text, in page order.
PageFull ==
    [name |-> "Page Name", image |-> "https://wsrv.nl/page.png",
     creator |-> "alice", fee |-> "bob", royalty |-> 10,
     tickers |-> <<"VERYLONGTICKER", "BAR">>]
PageBare ==
    [name |-> UnknownToken, image |-> None, creator |-> None, fee |-> None, royalty |-> 0,
     tickers |-> <<>>]
Pages == {PageFull, PageBare}
\* <<>> : webdriver.Chrome, driver.get or execute_script raised
PageOutcomes == { <<>> } \cup { <<p>> : p \in Pages }

\* get_helius_metadata: the dict it returns.  A missing asset, a non-200
\* status and an exception all give the dict of None values.
HeliusEmpty ==
    [name |-> None, symbol |-> None, image |-> None, website |-> None, twitter |-> None]
HeliusFull ==
    [name |-> "Foo", symbol |-> "FOO", image |-> "https://ipfs.io/ipfs/foo.png",
     website |-> None, twitter |-> "footoken"]
HeliusOutcomes == {HeliusEmpty, HeliusFull}

(***************************************************************************)
(* main.py: get_helius_metadata on one getAsset answer.  A JSON value is   *)
(* [k, s]: its kind ("missing": the key is not there, "null", "str",       *)
(* "num") and its text.                                                    *)
(***************************************************************************)
Missing == [k |-> "missing", s |-> ""]
Null == [k |-> "null", s |-> ""]
Str(x) == [k |-> "str", s |-> x]
Num == [k |-> "num", s |-> "7"]

\* bool(value): None, "" and a missing key's default are falsy
Truthy(v) == v.k = "num" \/ (v.k = "str" /\ v.s # "")

\* str.strip()
Strip(x) ==
    CASE x = "  " -> ""
      [] x = " Foo " -> "Foo"
      [] OTHER -> x

\* what one extraction step gives: a value (None when the field is not
\* taken), or the exception it raised
Got(x) == [raised |-> FALSE, v |-> x]
Raised == [raised |-> TRUE, v |-> None]

\* name = metadata.get("name"); if name and name.strip() and name != mint_address
HeliusName(v, mint) ==
    IF ~Truthy(v) THEN Got(None)
    ELSE IF v.k # "str" THEN Raised
    ELSE IF Strip(v.s) = "" \/ v.s = mint THEN Got(None)
    ELSE Got(Strip(v.s))

\* symbol, image: if value and value.strip()
HeliusText(v) ==
    IF ~Truthy(v) THEN Got(None)
    ELSE IF v.k # "str" THEN Raised
    ELSE IF Strip(v.s) = "" THEN Got(None)
    ELSE Got(Strip(v.s))

\* website = metadata.get("external_url") or metadata.get("website")
HeliusWebsite(url, site) == HeliusText(IF Truthy(url) THEN url ELSE site)

\* trait_type.lower()
LowerTrait(x) ==
    CASE x = "Twitter" -> "twitter"
      [] x = "Max Supply" -> "max supply"
      [] x = "Website" -> "website"
      [] OTHER -> x

\* "twitter" in trait_type or "x" in trait_type
IsTwitterTrait(tt) == tt \in {"twitter", "max supply"}

\* "website" in trait_type
IsWebsiteTrait(tt) == tt = "website"

\* value.replace("@", "").replace("https://twitter.com/", "").replace("https://x.com/", "").strip()
CleanAttrHandle(x) ==
    CASE x = "@footoken" -> "footoken"
      [] x = "https://x.com/footoken" -> "footoken"
      [] x = "@" -> ""
      [] OTHER -> x

\* value.startswith("http")
StartsWithHttp(x) == x \in {"https://foo.io", "https://x.com/footoken", "https://x.com/foo_dev"}

\* for attr in attributes: the website and twitter found so far, or raised
RECURSIVE AttrLoop(_, _, _)
AttrLoop(items, i, acc) ==
    IF i > Len(items) \/ acc.raised THEN acc
    ELSE LET attr == items[i]
         IN  IF ~attr.dict THEN AttrLoop(items, i + 1, acc)
             ELSE IF attr.trait.k \in {"null", "num"} THEN [acc EXCEPT !.raised = TRUE]
             ELSE LET tt == LowerTrait(attr.trait.s)
                      value == attr.value
                  IN  IF IsTwitterTrait(tt)
                      THEN IF value.k = "str" /\ value.s # "" /\ CleanAttrHandle(value.s) # ""
                           THEN AttrLoop(items, i + 1,
                                         [acc EXCEPT !.twitter = CleanAttrHandle(value.s)])
                           ELSE AttrLoop(items, i + 1, acc)
                      ELSE IF IsWebsiteTrait(tt) /\ acc.website = None
                      THEN IF value.k = "str" /\ StartsWithHttp(value.s)
                           THEN AttrLoop(items, i + 1, [acc EXCEPT !.website = value.s])
                           ELSE AttrLoop(items, i + 1, acc)
                      ELSE AttrLoop(items, i + 1, acc)

\* attributes = metadata.get("attributes", []): a missing key gives the
\* empty list, null and a number cannot be iterated
HeliusAttributes(attrs, website) ==
    LET start == [raised |-> FALSE, website |-> website, twitter |-> None]
    IN  CASE attrs.k = "missing" -> start
          [] attrs.k \in {"null", "num"} -> [start EXCEPT !.raised = TRUE]
          [] attrs.k = "list" -> AttrLoop(attrs.items, 1, start)

\* twitter_url.split("/")[-1]
LastSegment(x) ==
    CASE x = "https://x.com/foo_dev" -> "foo_dev"
      [] OTHER -> x

\* "twitter.com/" in twitter_url or "x.com/" in twitter_url
IsTwitterUrl(x) == x \in {"https://x.com/foo_dev", "https://x.com/footoken"}

\* links = content.get("links", {}); if isinstance(links, dict): ...
HeliusLinks(links, acc) ==
    IF links.k # "dict" \/ acc.raised THEN acc
    ELSE LET web == IF acc.website = None /\ Truthy(links.external_url)
                    THEN links.external_url.s ELSE acc.website
         IN  IF acc.twitter = None /\ Truthy(links.twitter)
             THEN IF links.twitter.k # "str" THEN [acc EXCEPT !.raised = TRUE]
                  ELSE IF IsTwitterUrl(links.twitter.s)
                       THEN [acc EXCEPT !.website = web, !.twitter = LastSegment(links.twitter.s)]
                       ELSE [acc EXCEPT !.website = web]
             ELSE [acc EXCEPT !.website = web]

\* get_helius_metadata: any exception inside the try gives the dict of None
\* values, as do a non-200 status and an answer without an asset
GetHeliusMetadata(resp, mint) ==
    IF resp.kind # "asset" THEN HeliusEmpty
    ELSE LET name == HeliusName(resp.name, mint)
             symbol == HeliusText(resp.symbol)
             image == HeliusText(resp.image)
             website == HeliusWebsite(resp.external_url, Missing)
         IN  IF name.raised \/ symbol.raised \/ image.raised \/ website.raised
             THEN HeliusEmpty
             ELSE LET acc == HeliusLinks(resp.links, HeliusAttributes(resp.attributes, website.v))
                  IN  IF acc.raised THEN HeliusEmpty
                      ELSE [name |-> name.v, symbol |-> symbol.v, image |-> image.v,
                            website |-> acc.website, twitter |-> acc.twitter]

\* getAsset answers: a status other than 200, requests.post raising,
\* "result": null, or an asset with these metadata fields and links
Attr(trait, value) == [dict |-> TRUE, trait |-> trait, value |-> value]
NotADict == [dict |-> FALSE, trait |-> Missing, value |-> Missing]
List(items) == [k |-> "list", items |-> items]
NoList(k) == [k |-> k, items |-> <<>>]
Links(url, twitter) == [k |-> "dict", external_url |-> url, twitter |-> twitter]
NoLinks(k) == [k |-> k, external_url |-> Missing, twitter |-> Missing]

AssetNames == {Missing, Null, Str("Foo"), Str(" Foo "), Str("  "), Str(UnknownToken), Num}
AssetSymbols == {Missing, Str("FOO"), Num}
AssetImages == {Missing, Str("https://ipfs.io/ipfs/foo.png")}
AssetUrls == {Missing, Str("https://foo.io")}
AssetAttributes ==
    { NoList("missing"), NoList("null"),
      List(<<Attr(Str("Twitter"), Str("@footoken"))>>),
      List(<<NotADict, Attr(Str("Website"), Str("https://foo.io"))>>),
      List(<<Attr(Null, Str("@footoken"))>>) }
AssetLinks ==
    { NoLinks("missing"), NoLinks("null"),
      Links(Missing, Str("https://x.com/foo_dev")),
      Links(Missing, Num) }

Asset(name, symbol, image, url, attributes, links) ==
    [kind |-> "asset", name |-> name, symbol |-> symbol, image |-> image,
     external_url |-> url, attributes |-> attributes, links |-> links]
EmptyAsset == Asset(Missing, Missing, Missing, Missing, NoList("missing"), NoLinks("missing"))
NoAsset(kind) == [EmptyAsset EXCEPT !.kind = kind]

AssetResponses ==
    { NoAsset(kind) : kind \in {"http", "exc", "noasset"} } \cup
    { Asset(n, sy, im, u, a, l) : n \in AssetNames, sy \in AssetSymbols, im \in AssetImages,
                                  u \in AssetUrls, a \in AssetAttributes, l \in AssetLinks }

\* len(text) of the names compared in get_metadata_fast
StrLen(x) ==
    CASE x = "Foo" -> 3
      [] x = " Foo " -> 5
      [] x = "  " -> 2
      [] x = "Fo" -> 2
      [] x = "Foo Token" -> 9
      [] x = UnknownToken -> 13

\* hybrid_extraction.py: get_metadata_fast, the name it returns for the
\* on-chain metadata name and the name in the JSON behind the metadata uri.
\* len() of a null on-chain name raises inside the try around the uri fetch.
UriNames == {Missing, Str("Fo"), Str("Foo Token")}

FastName(onchain, uri) ==
    LET base == CASE onchain.k = "missing" -> UnknownToken
                  [] onchain.k = "str" -> onchain.s
                  [] OTHER -> None
    IN  IF Truthy(uri) /\ onchain.k \in {"missing", "str"} /\ StrLen(uri.s) > StrLen(base)
        THEN uri.s
        ELSE base

\* len(sym) of the page tickers
TickerLen(sym) ==
    CASE sym = "BAR" -> 3
      [] sym = "VERYLONGTICKER" -> 14

\* f"${dollar_symbols[0]}"
Dollar(sym) ==
    CASE sym = "BAR" -> "$BAR"
      [] sym = "VERYLONGTICKER" -> "$VERYLONGTICKER"

\* fetch_bags_token_data, the ticker step on the symbol chosen so far.  The
\* list comprehension calls clean_ticker, a name main.py never defines, on
\* every ticker that passes its filter (no ticker of the page is the first
\* ten characters of the mint): the NameError is caught by the except of
\* the step and the symbol is left as it was.  The symbol is "UNKNOWN" or
\* the adapter's non-empty symbol when the step starts.
BagsTicker(symbol, tickers) ==
    LET kept == SelectSeq(tickers, LAMBDA sym : TickerLen(sym) <= 10)
        raised == kept # <<>>
    IN  IF raised THEN symbol
        ELSE IF kept # <<>> /\ symbol = "" THEN Dollar(kept[1]) ELSE symbol

\* fetch_bags_token_data after the page loaded: the result dict
MergeTokenDataHeliusTwitter(page, hel) ==
    [name |-> IF hel.name # None /\ hel.name # UnknownToken THEN hel.name ELSE page.name,
     symbol |-> BagsTicker(IF hel.symbol # None THEN hel.symbol ELSE UnknownSymbol,
                           page.tickers),
     image |-> IF hel.image # None THEN hel.image ELSE page.image,
     website |-> hel.website,
     createdBy |-> IF page.creator # None THEN page.creator ELSE hel.twitter,
     royaltiesTo |-> page.fee,
     royaltyPercentage |-> page.royalty]
MergeTokenData(page, hel) ==
    [name |-> IF hel.name # None /\ hel.name # UnknownToken THEN hel.name ELSE page.name,
     symbol |-> BagsTicker(IF hel.symbol # None THEN hel.symbol ELSE UnknownSymbol,
                           page.tickers),
     image |-> IF hel.image # None THEN hel.image ELSE page.image,
     website |-> hel.website,
     createdBy |-> page.creator,
     royaltiesTo |-> page.fee,
     royaltyPercentage |-> page.royalty]

(***************************************************************************)
(* The state.                                                              *)
(***************************************************************************)
VARIABLES
    chain,            \* the authority's transactions, oldest first; a signature is an index
    inbox,            \* logsNotification signatures queued on the open WebSocket
    seen_mints,       \* main.py: seen_mints
    last_signature,   \* monitor_polling: last_signature (0 is None)
    pc,               \* where each task stands
    cur,              \* each task's locals while it handles one signature
    running,          \* the task that holds the event loop, or None
    started,          \* per identifier: how often the metadata fetch was started
    attempted,        \* identifiers for which a Telegram send was issued
    polled,           \* the poll just answered: signatures newer than last-seen, and those
                      \* handed on; forgotten once the polling path moves on to the lookup
    probe,            \* a transaction given to the detection entry points on its own
    done              \* how the handling of a token ended, if the latest step ended one

vars == <<chain, inbox, seen_mints, last_signature, pc, cur, running, started, attempted,
          polled, probe, done>>

Tasks == {"ws", "poll"}

\* page, hel and data hold at most one value: <<>> is None
Idle == [sig |-> 0, resp |-> None, attempts |-> 0, mint |-> None,
         page |-> <<>>, asset |-> <<>>, hel |-> <<>>, data |-> <<>>]

\* Transactions that appear on the chain in the orchestrator's runs.
LaunchA == Tx(None, <<LogInvoke>>, <<METADATA_PROGRAM_ID, BAGS_UPDATE_AUTHORITY, MintA>>)
LaunchB == Tx(None, <<LogCreate>>, <<BAGS_UPDATE_AUTHORITY, SystemProgram, MintB>>)
FailedA == Tx("InstructionError", <<LogInvoke>>, <<METADATA_PROGRAM_ID, BAGS_UPDATE_AUTHORITY, MintA>>)
ChainTxs == {LaunchA, LaunchB, FailedA}

NoPoll == [newer |-> {}, handed |-> {}]

NoDone == <<>>
\* process_new_token returned: at the gate, after a send went through, or
\* after the last send it tries raised
Done(t, mint, outcome) == <<[task |-> t, mint |-> mint, outcome |-> outcome]>>

NoProbe == [tx |-> LaunchA, ranMain |-> FALSE, handed |-> <<>>, ranLegacy |-> FALSE, legacy |-> <<>>]

\* getTransaction: a transaction, "result": null, a JSON-RPC error object,
\* a status other than 200, or requests.post raising (timeout, connection)
RpcResponses == {"ok", "noresult", "rpcerror", "http", "exc"}
SigResponses == {"ok", "http", "exc"}

SendPcs == {"photo", "text", "emergency", "basic"}
SyncPcs == {"lookup", "inspect", "gate", "add", "scrape", "helius", "send"}

Init ==
    /\ chain = <<>>
    /\ inbox = <<>>
    /\ seen_mints = {}
    /\ last_signature = 0
    /\ pc = [t \in Tasks |-> IF t = "ws" THEN "connect" ELSE "poll"]
    /\ cur = [t \in Tasks |-> Idle]
    /\ running = None
    /\ started = [m \in Mints |-> 0]
    /\ attempted = {}
    /\ polled = NoPoll
    /\ probe = NoProbe
    /\ done = NoDone

(***************************************************************************)
(* Scheduling: a synchronous stretch runs while its task holds the loop;   *)
(* a suspended task resumes only when no task holds it.                    *)
(***************************************************************************)
Holds(t) == running = t \/ running = None
LoopFree == running = None

\* the await the task suspends on once the handling of a signature is over:
\* `async for message in websocket` or `await asyncio.sleep(30)`
ReturnPc(t) == IF t = "ws" THEN "listen" ELSE "sleep"

\* except clauses of the two loops and of check_transaction_for_token_creation
WsOnTransportErrorPropagates == "dead"
WsOnTransportError == "sleep"
WsOnMessageError == "listen"
PollOnErrorPropagates == "dead"
PollOnError == "sleep"
CheckOnError(t) == ReturnPc(t)

Return(t) ==
    /\ pc' = [pc EXCEPT ![t] = ReturnPc(t)]
    /\ cur' = [cur EXCEPT ![t] = Idle]
    /\ running' = None

(***************************************************************************)
(* The chain: the authority takes part in a new transaction.  The open     *)
(* subscription is notified; a closed one misses it.                       *)
(***************************************************************************)
Subscribed == pc["ws"] \notin {"connect", "subscribe", "sleep", "dead"}

NewTransaction(tx) ==
    /\ Len(chain) < MaxChain
    /\ chain' = Append(chain, tx)
    /\ inbox' = IF Subscribed THEN Append(inbox, Len(chain) + 1) ELSE inbox
    /\ UNCHANGED <<seen_mints, last_signature, pc, cur, running, started, attempted,
                   polled, probe>>
    /\ done' = NoDone


(***************************************************************************)
(* main.py: monitor_websocket.                                             *)
(***************************************************************************)
\* async with websockets.connect(WS_URL) as websocket
WsConnect(ok) ==
    /\ pc["ws"] = "connect" /\ LoopFree
    /\ pc' = [pc EXCEPT !["ws"] = IF ok THEN "subscribe" ELSE WsOnTransportError]
    /\ inbox' = <<>>
    /\ UNCHANGED <<chain, seen_mints, last_signature, cur, running, started, attempted,
                   polled, probe>>
    /\ done' = NoDone

\* await websocket.send(json.dumps(subscribe_message))
WsSubscribe(ok) ==
    /\ pc["ws"] = "subscribe" /\ LoopFree
    /\ pc' = [pc EXCEPT !["ws"] = IF ok THEN "listen" ELSE WsOnTransportError]
    /\ inbox' = <<>>
    /\ UNCHANGED <<chain, seen_mints, last_signature, cur, running, started, attempted,
                   polled, probe>>
    /\ done' = NoDone

\* async for message: a logsNotification that carries a signature
WsRecvNotification ==
    /\ pc["ws"] = "listen" /\ LoopFree
    /\ inbox # <<>>
    /\ inbox' = Tail(inbox)
    /\ pc' = [pc EXCEPT !["ws"] = "lookup"]
    /\ cur' = [cur EXCEPT !["ws"] = [Idle EXCEPT !.sig = Head(inbox)]]
    /\ running' = "ws"
    /\ UNCHANGED <<chain, seen_mints, last_signature, started, attempted, polled, probe>>
    /\ done' = NoDone

\* async for message: the subscription confirmation (continue), a
\* notification without signature, or text json.loads rejects (inner except)
WsRecvOther(kind) ==
    /\ pc["ws"] = "listen" /\ LoopFree
    /\ pc' = [pc EXCEPT !["ws"] = IF kind = "malformed" THEN WsOnMessageError ELSE "listen"]
    /\ UNCHANGED <<chain, inbox, seen_mints, last_signature, cur, running, started,
                   attempted, polled, probe>>
    /\ done' = NoDone

\* async for message raises ConnectionClosedError
WsRecvError ==
    /\ pc["ws"] = "listen" /\ LoopFree
    /\ pc' = [pc EXCEPT !["ws"] = WsOnTransportError]
    /\ inbox' = <<>>
    /\ UNCHANGED <<chain, seen_mints, last_signature, cur, running, started, attempted,
                   polled, probe>>
    /\ done' = NoDone

\* the server closes the stream: the iteration ends, the while loop goes round
WsRecvClosed ==
    /\ pc["ws"] = "listen" /\ LoopFree
    /\ pc' = [pc EXCEPT !["ws"] = "connect"]
    /\ inbox' = <<>>
    /\ UNCHANGED <<chain, seen_mints, last_signature, cur, running, started, attempted,
                   polled, probe>>
    /\ done' = NoDone

\* await asyncio.sleep(5) is over
WsSleepDone ==
    /\ pc["ws"] = "sleep" /\ LoopFree
    /\ pc' = [pc EXCEPT !["ws"] = "connect"]
    /\ UNCHANGED <<chain, inbox, seen_mints, last_signature, cur, running, started,
                   attempted, polled, probe>>
    /\ done' = NoDone

(***************************************************************************)
(* main.py: monitor_polling.                                               *)
(***************************************************************************)
\* getSignaturesForAddress: the `limit` most recent signatures, newest first
RECURSIVE RecentSignatures(_, _)
RecentSignatures(n, limit) ==
    IF n = 0 \/ limit = 0 THEN <<>>
    ELSE <<n>> \o RecentSignatures(n - 1, limit - 1)

SeqSet(s) == { s[i] : i \in 1..Len(s) }

\* the signatures one poll hands to check_transaction_for_token_creation
PollHands(sigs, last) ==
    IF sigs # <<>> /\ sigs[1] # last THEN {sigs[1]} ELSE {}

PollSignatures(resp) ==
    /\ pc["poll"] = "poll" /\ LoopFree
    /\ LET sigs == IF resp = "ok" THEN RecentSignatures(Len(chain), PollLimit) ELSE <<>>
           hand == PollHands(sigs, last_signature)
       IN  /\ polled' = [newer |-> IF last_signature # 0
                                   THEN { x \in SeqSet(sigs) : x > last_signature }
                                   ELSE {},
                         handed |-> hand]
           /\ IF hand # {}
              THEN /\ last_signature' = sigs[1]
                   /\ pc' = [pc EXCEPT !["poll"] = "lookup"]
                   /\ cur' = [cur EXCEPT !["poll"] = [Idle EXCEPT !.sig = sigs[1]]]
                   /\ running' = "poll"
              ELSE /\ pc' = [pc EXCEPT !["poll"] = IF resp = "exc" THEN PollOnError ELSE "sleep"]
                   /\ UNCHANGED <<last_signature, cur, running>>
    /\ UNCHANGED <<chain, inbox, seen_mints, started, attempted, probe>>
    /\ done' = NoDone

\* await asyncio.sleep(30) is over
PollSleepDone ==
    /\ pc["poll"] = "sleep" /\ LoopFree
    /\ pc' = [pc EXCEPT !["poll"] = "poll"]
    /\ UNCHANGED <<chain, inbox, seen_mints, last_signature, cur, running, started,
                   attempted, polled, probe>>
    /\ done' = NoDone


(***************************************************************************)
(* main.py: check_transaction_for_token_creation.                          *)
(***************************************************************************)
\* where control goes once requests.post returned or raised
AfterLookupRetry(resp, attempts) ==
    IF resp \in {"rpcerror", "http", "exc"} /\ attempts < 3 THEN "lookup" ELSE "inspect"
AfterLookup(resp, attempts) == "inspect"

\* response = requests.post(RPC_URL, json=payload, timeout=10)
Lookup(t, resp) ==
    /\ pc[t] = "lookup" /\ Holds(t)
    /\ cur' = [cur EXCEPT ![t].resp = resp, ![t].attempts = @ + 1]
    /\ pc' = [pc EXCEPT ![t] = AfterLookup(resp, cur[t].attempts + 1)]
    /\ running' = t
    /\ polled' = IF t = "poll" THEN NoPoll ELSE polled
    /\ UNCHANGED <<chain, inbox, seen_mints, last_signature, started, attempted, probe>>
    /\ done' = NoDone

\* the identifiers the response gives: only a 200 with a result is inspected
Candidates(resp, tx) == IF resp = "ok" THEN CheckTransaction(tx) ELSE <<>>

Inspect(t) ==
    /\ pc[t] = "inspect" /\ Holds(t)
    /\ LET cands == Candidates(cur[t].resp, chain[cur[t].sig])
       IN  IF cands = <<>>
           THEN /\ pc' = [pc EXCEPT ![t] = IF cur[t].resp = "exc" THEN CheckOnError(t)
                                           ELSE ReturnPc(t)]
                /\ cur' = [cur EXCEPT ![t] = Idle]
                /\ running' = None
           ELSE /\ pc' = [pc EXCEPT ![t] = "gate"]
                /\ cur' = [cur EXCEPT ![t].mint = cands[1]]
                /\ running' = t
    /\ UNCHANGED <<chain, inbox, seen_mints, last_signature, started, attempted, polled,
                   probe>>
    /\ done' = NoDone

(***************************************************************************)
(* main.py: process_new_token.                                             *)
(***************************************************************************)
\* who holds the loop between `if mint_address in seen_mints` and
\* `seen_mints.add(mint_address)`: no await stands between them
LoopAfterGateCheckAwait(t) == None
LoopAfterGateCheck(t) == t

\* mint_address in seen_mints
AlreadySeenNever(mint, seen) == FALSE
AlreadySeen(mint, seen) == mint \in seen

\* if mint_address in seen_mints: return
GateCheck(t) ==
    /\ pc[t] = "gate" /\ Holds(t)
    /\ IF AlreadySeen(cur[t].mint, seen_mints)
       THEN /\ Return(t)
            /\ done' = Done(t, cur[t].mint, "refused")
       ELSE /\ pc' = [pc EXCEPT ![t] = "add"]
            /\ running' = LoopAfterGateCheck(t)
            /\ done' = NoDone
            /\ UNCHANGED cur
    /\ UNCHANGED <<chain, inbox, seen_mints, last_signature, started, attempted, polled,
                   probe>>

\* seen_mints.add(mint_address)
GateAdd(t) ==
    /\ pc[t] = "add" /\ Holds(t)
    /\ seen_mints' = seen_mints \cup {cur[t].mint}
    /\ pc' = [pc EXCEPT ![t] = "scrape"]
    /\ running' = t
    /\ UNCHANGED <<chain, inbox, last_signature, cur, started, attempted, polled, probe>>
    /\ done' = NoDone

\* fetch_bags_token_data's outer except: the function returns None and
\* process_new_token goes on to its fallback notification
OnScrapeErrorPropagates(t) == ReturnPc(t)
OnScrapeError(t) == "send"

\* once the page text was read, get_helius_metadata is called before
\* anything is returned to process_new_token
AfterPageLoadSkipsHelius(t) == "send"
AfterPageLoad(t) == "helius"

\* fetch_bags_token_data: the browser loads the page, or raises and the
\* function returns None.  `asset` is what getAsset answers for this
\* identifier while it is processed.
LoadPage(t, page, asset) ==
    /\ pc[t] = "scrape" /\ Holds(t)
    /\ started' = [started EXCEPT ![cur[t].mint] = @ + 1]
    /\ LET next == IF page = <<>> THEN OnScrapeError(t) ELSE AfterPageLoad(t)
       IN  /\ pc' = [pc EXCEPT ![t] = next]
           /\ cur' = [cur EXCEPT ![t] = IF next \in SyncPcs
                                        THEN [@ EXCEPT !.page = page, !.asset = <<asset>>]
                                        ELSE Idle]
           /\ running' = IF next \in SyncPcs THEN t ELSE None
    /\ UNCHANGED <<chain, inbox, seen_mints, last_signature, attempted, polled, probe>>
    /\ done' = NoDone

\* fetch_bags_token_data: get_helius_metadata and the rest of the extraction
GetHelius(t) ==
    /\ pc[t] = "helius" /\ Holds(t)
    /\ cur' = [cur EXCEPT ![t].hel = cur[t].asset,
                          ![t].data = <<MergeTokenData(cur[t].page[1], cur[t].asset[1])>>]
    /\ pc' = [pc EXCEPT ![t] = "send"]
    /\ running' = t
    /\ UNCHANGED <<chain, inbox, seen_mints, last_signature, started, attempted, polled,
                   probe>>
    /\ done' = NoDone

\* the first Telegram call: send_photo, send_message(message), or the
\* basic notification when token_data is None
FirstSendTextOnly(data) ==
    IF data = <<>> THEN "basic" ELSE "text"
FirstSend(data) ==
    IF data = <<>> THEN "basic"
    ELSE IF data[1].image # None THEN "photo" ELSE "text"

SendStart(t) ==
    /\ pc[t] = "send" /\ Holds(t)
    /\ pc' = [pc EXCEPT ![t] = FirstSend(cur[t].data)]
    /\ attempted' = attempted \cup {cur[t].mint}
    /\ running' = None
    /\ UNCHANGED <<chain, inbox, seen_mints, last_signature, cur, started, polled, probe>>
    /\ done' = NoDone

(***************************************************************************)
(* main.py: send_telegram_message; each action is one awaited Telegram     *)
(* call returning or raising.                                              *)
(***************************************************************************)
\* the except clauses that end send_telegram_message and process_new_token
\* when the last send raised: the failure is logged
AfterSendFailureForgets(seen, mint) == seen \ {mint}
AfterSendFailure(seen, mint) == seen

\* await telegram_bot.send_photo(...)
PhotoDone(t, ok) ==
    /\ pc[t] = "photo" /\ LoopFree
    /\ IF ok
       THEN /\ Return(t)
            /\ done' = Done(t, cur[t].mint, "sent")
       ELSE /\ pc' = [pc EXCEPT ![t] = "text"]
            /\ done' = NoDone
            /\ UNCHANGED <<cur, running>>
    /\ UNCHANGED <<chain, inbox, seen_mints, last_signature, started, attempted, polled,
                   probe>>

\* await telegram_bot.send_message(text=message, ...)
TextDone(t, ok) ==
    /\ pc[t] = "text" /\ LoopFree
    /\ IF ok
       THEN /\ Return(t)
            /\ done' = Done(t, cur[t].mint, "sent")
       ELSE /\ pc' = [pc EXCEPT ![t] = "emergency"]
            /\ done' = NoDone
            /\ UNCHANGED <<cur, running>>
    /\ UNCHANGED <<chain, inbox, seen_mints, last_signature, started, attempted, polled,
                   probe>>

\* await telegram_bot.send_message(text=fallback)
EmergencyDone(t, ok) ==
    /\ pc[t] = "emergency" /\ LoopFree
    /\ Return(t)
    /\ seen_mints' = IF ok THEN seen_mints ELSE AfterSendFailure(seen_mints, cur[t].mint)
    /\ done' = Done(t, cur[t].mint, IF ok THEN "sent" ELSE "unsent")
    /\ UNCHANGED <<chain, inbox, last_signature, started, attempted, polled, probe>>

\* process_new_token: await telegram_bot.send_message(text=fallback_message)
BasicDone(t, ok) ==
    /\ pc[t] = "basic" /\ LoopFree
    /\ Return(t)
    /\ seen_mints' = IF ok THEN seen_mints ELSE AfterSendFailure(seen_mints, cur[t].mint)
    /\ done' = Done(t, cur[t].mint, IF ok THEN "sent" ELSE "unsent")
    /\ UNCHANGED <<chain, inbox, last_signature, started, attempted, polled, probe>>

(***************************************************************************)
(* The orchestrator: main() runs both loops on one event loop.             *)
(***************************************************************************)
Next ==
    \/ \E tx \in ChainTxs : NewTransaction(tx)
    \/ \E ok \in BOOLEAN : WsConnect(ok)
    \/ \E ok \in BOOLEAN : WsSubscribe(ok)
    \/ WsRecvNotification
    \/ \E kind \in {"confirmation", "nosignature", "malformed"} : WsRecvOther(kind)
    \/ WsRecvError
    \/ WsRecvClosed
    \/ WsSleepDone
    \/ \E resp \in SigResponses : PollSignatures(resp)
    \/ PollSleepDone
    \/ \E t \in Tasks, resp \in RpcResponses : Lookup(t, resp)
    \/ \E t \in Tasks : Inspect(t)
    \/ \E t \in Tasks : GateCheck(t)
    \/ \E t \in Tasks : GateAdd(t)
    \/ \E t \in Tasks, page \in PageOutcomes, asset \in HeliusOutcomes : LoadPage(t, page, asset)
    \/ \E t \in Tasks : GetHelius(t)
    \/ \E t \in Tasks : SendStart(t)
    \/ \E t \in Tasks, ok \in BOOLEAN : PhotoDone(t, ok)
    \/ \E t \in Tasks, ok \in BOOLEAN : TextDone(t, ok)
    \/ \E t \in Tasks, ok \in BOOLEAN : EmergencyDone(t, ok)
    \/ \E t \in Tasks, ok \in BOOLEAN : BasicDone(t, ok)

Spec == Init /\ [][Next]_vars


(***************************************************************************)
(* Fairness.  The event loop resumes every task whose await is over, a     *)
(* task that holds the loop runs on, sleeps end and every external call    *)
(* returns or raises.  Nothing obliges the chain to produce transactions   *)
(* or the server to send anything but the notifications already queued.    *)
(***************************************************************************)
WsProgress ==
    \/ \E ok \in BOOLEAN : WsConnect(ok)
    \/ \E ok \in BOOLEAN : WsSubscribe(ok)
    \/ WsRecvNotification
    \/ WsSleepDone

PollProgress ==
    \/ \E resp \in SigResponses : PollSignatures(resp)
    \/ PollSleepDone

PipelineProgress(t) ==
    \/ \E resp \in RpcResponses : Lookup(t, resp)
    \/ Inspect(t)
    \/ GateCheck(t)
    \/ GateAdd(t)
    \/ \E page \in PageOutcomes, asset \in HeliusOutcomes : LoadPage(t, page, asset)
    \/ GetHelius(t)
    \/ SendStart(t)
    \/ \E ok \in BOOLEAN : PhotoDone(t, ok)
    \/ \E ok \in BOOLEAN : TextDone(t, ok)
    \/ \E ok \in BOOLEAN : EmergencyDone(t, ok)
    \/ \E ok \in BOOLEAN : BasicDone(t, ok)

Fairness ==
    /\ WF_vars(WsProgress)
    /\ WF_vars(PollProgress)
    /\ \A t \in Tasks : WF_vars(PipelineProgress(t))

FairSpec == Spec /\ Fairness

(***************************************************************************)
(* The detection entry points on every transaction of the bounded shape.   *)
(***************************************************************************)
InitDetect ==
    /\ chain = <<>>
    /\ inbox = <<>>
    /\ seen_mints = {}
    /\ last_signature = 0
    /\ pc = [t \in Tasks |-> IF t = "ws" THEN "connect" ELSE "poll"]
    /\ cur = [t \in Tasks |-> Idle]
    /\ running = None
    /\ started = [m \in Mints |-> 0]
    /\ attempted = {}
    /\ polled = NoPoll
    /\ probe \in { [NoProbe EXCEPT !.tx = tx] : tx \in AllTxs }
    /\ done = NoDone

\* main.py, main_hybrid.py: check_transaction_for_token_creation
ProbeCheckTransaction ==
    /\ ~probe.ranMain
    /\ probe' = [probe EXCEPT !.ranMain = TRUE, !.handed = CheckTransaction(probe.tx)]
    /\ UNCHANGED <<chain, inbox, seen_mints, last_signature, pc, cur, running, started,
                   attempted, polled, done>>

\* bags_telegram_bot.py: on_websocket_message
ProbeOnWebsocketMessage ==
    /\ ~probe.ranLegacy
    /\ probe' = [probe EXCEPT !.ranLegacy = TRUE, !.legacy = OnWebsocketMessage(probe.tx)]
    /\ UNCHANGED <<chain, inbox, seen_mints, last_signature, pc, cur, running, started,
                   attempted, polled, done>>

NextDetect == ProbeCheckTransaction \/ ProbeOnWebsocketMessage

SpecDetect == InitDetect /\ [][NextDetect]_vars

(***************************************************************************)
(* The on-chain asset adapter and the reconciliation on every getAsset     *)
(* answer of the enumerated shape, for a page that loaded.                 *)
(***************************************************************************)
NoAssetProbe ==
    [resp |-> EmptyAsset, page |-> PageBare, uri |-> Missing, ranHelius |-> FALSE,
     hel |-> <<>>, ranFetch |-> FALSE, data |-> <<>>, ranFast |-> FALSE, fast |-> None]

InitAsset ==
    /\ chain = <<>>
    /\ inbox = <<>>
    /\ seen_mints = {}
    /\ last_signature = 0
    /\ pc = [t \in Tasks |-> IF t = "ws" THEN "connect" ELSE "poll"]
    /\ cur = [t \in Tasks |-> Idle]
    /\ running = None
    /\ started = [m \in Mints |-> 0]
    /\ attempted = {}
    /\ polled = NoPoll
    /\ done = NoDone
    /\ probe \in { [NoAssetProbe EXCEPT !.resp = r, !.page = p, !.uri = u] :
                      r \in AssetResponses, p \in Pages, u \in UriNames }

\* main.py: get_helius_metadata(mint_address)
ProbeGetHeliusMetadata ==
    /\ ~probe.ranHelius
    /\ probe' = [probe EXCEPT !.ranHelius = TRUE,
                              !.hel = <<GetHeliusMetadata(probe.resp, MintA)>>]
    /\ UNCHANGED <<chain, inbox, seen_mints, last_signature, pc, cur, running, started,
                   attempted, polled, done>>

\* main.py: fetch_bags_token_data(mint_address), the page having loaded
ProbeFetchBagsTokenData ==
    /\ ~probe.ranFetch
    /\ probe' = [probe EXCEPT !.ranFetch = TRUE,
                              !.data = <<MergeTokenData(probe.page,
                                                        GetHeliusMetadata(probe.resp, MintA))>>]
    /\ UNCHANGED <<chain, inbox, seen_mints, last_signature, pc, cur, running, started,
                   attempted, polled, done>>

\* hybrid_extraction.py: get_metadata_fast, the answer's name being the
\* on-chain metadata name
ProbeGetMetadataFast ==
    /\ ~probe.ranFast
    /\ probe.resp.kind = "asset" /\ probe.resp.name.k # "num"
    /\ probe' = [probe EXCEPT !.ranFast = TRUE,
                              !.fast = FastName(probe.resp.name, probe.uri)]
    /\ UNCHANGED <<chain, inbox, seen_mints, last_signature, pc, cur, running, started,
                   attempted, polled, done>>

NextAsset == ProbeGetHeliusMetadata \/ ProbeFetchBagsTokenData \/ ProbeGetMetadataFast

SpecAsset == InitAsset /\ [][NextAsset]_vars


(***************************************************************************)
(* test_full_message.py, test_fee_split.py: the phrase-window scan that    *)
(* classifies the page's profile links.                                    *)
(***************************************************************************)
Window == 300        \* page_source[pos - 300 : pos + 300]
PageLen == 1200      \* len(page_source) of an enumerated page

CreatedBy == "created by"
RoyaltiesTo == "royalties to"
Earns100 == "earns 100%"
Earns0 == "earns 0%"
Phrases == {CreatedBy, RoyaltiesTo, Earns100, Earns0}
SkippedHandles == {"intent", "share", "home"}

\* len() of the texts the scan looks for
TextLen(x) ==
    CASE x = CreatedBy -> 10
      [] x = RoyaltiesTo -> 12
      [] x = Earns100 -> 10
      [] x = Earns0 -> 8
      [] x = "alice" -> 5
      [] x = "bob" -> 3
      [] OTHER -> 6

\* text in page_source[max(0, pos - 300) : min(len(page_source), pos + 300)].lower(),
\* the text standing at the offsets at
InContext(page, text, at, pos) ==
    LET start_pos == IF pos - Window >= 0 THEN pos - Window ELSE 0
        end_pos == IF PageLen <= pos + Window THEN PageLen ELSE pos + Window
    IN  \E p \in at : p >= start_pos /\ p + TextLen(text) <= end_pos

\* for pos in handle_positions: the first branch that matches assigns and
\* breaks; found is <<creator_handle, fee_handle>> so far
RECURSIVE ScanPositions(_, _, _, _)
ScanPositions(page, handle, i, found) ==
    IF i > Len(page.handles[handle]) THEN found
    ELSE LET pos == page.handles[handle][i]
             near(phrase) == /\ InContext(page, phrase, page.phrases[phrase], pos)
                             /\ InContext(page, handle, { page.handles[handle][j] : j \in 1..Len(page.handles[handle]) }, pos)
         IN  IF near(CreatedBy) /\ found.creator = None
             THEN [found EXCEPT !.creator = handle]
             ELSE IF near(RoyaltiesTo) /\ found.fee = None
             THEN [found EXCEPT !.fee = handle]
             ELSE IF near(Earns100) /\ found.fee = None
             THEN [found EXCEPT !.fee = handle]
             ELSE IF near(Earns0) /\ found.creator = None
             THEN [found EXCEPT !.creator = handle]
             ELSE ScanPositions(page, handle, i + 1, found)

\* for link in twitter_links
RECURSIVE ScanLinks(_, _, _, _)
ScanLinks(page, links, i, found) ==
    IF i > Len(links) THEN found
    ELSE IF links[i] \in SkippedHandles
         THEN ScanLinks(page, links, i + 1, found)
         ELSE ScanLinks(page, links, i + 1, ScanPositions(page, links[i], 1, found))

\* get_fee_split_data: creator_handle and fee_handle after the loop
GetFeeSplitData(page, links) ==
    ScanLinks(page, links, 1, [creator |-> None, fee |-> None])

\* Pages of the kind the scan is written for: "alice" once within 50
\* characters of "created by", "bob" once within 50 characters of
\* "royalties to", no text overlapping another; the links in either order,
\* with or without a share link between them.
PhrasePositions == {100, 300, 500, 700, 1000}
NearOffsets == {-50, -20, 20, 50}
Disjoint(p, a, q, b) == (p + a <= q) \/ (q + b <= p)
ScanPage(c, a, r, b) ==
    [phrases |-> [ph \in Phrases |-> IF ph = CreatedBy THEN {c}
                                     ELSE IF ph = RoyaltiesTo THEN {r} ELSE {}],
     handles |-> [h \in {"alice", "bob"} |-> IF h = "alice" THEN <<a>> ELSE <<b>>]]
ScanPages ==
    { ScanPage(c, c + da, r, r + db) :
        c \in PhrasePositions, r \in PhrasePositions, da \in NearOffsets, db \in NearOffsets }
WellFormedPage(page) ==
    LET c == CHOOSE x \in page.phrases[CreatedBy] : TRUE
        r == CHOOSE x \in page.phrases[RoyaltiesTo] : TRUE
        a == page.handles["alice"][1]
        b == page.handles["bob"][1]
    IN  /\ Disjoint(c, TextLen(CreatedBy), r, TextLen(RoyaltiesTo))
        /\ Disjoint(c, TextLen(CreatedBy), a, TextLen("alice"))
        /\ Disjoint(c, TextLen(CreatedBy), b, TextLen("bob"))
        /\ Disjoint(r, TextLen(RoyaltiesTo), a, TextLen("alice"))
        /\ Disjoint(r, TextLen(RoyaltiesTo), b, TextLen("bob"))
        /\ Disjoint(a, TextLen("alice"), b, TextLen("bob"))
LinkOrders ==
    {<<"alice", "bob">>, <<"bob", "alice">>, <<"alice", "share", "bob">>, <<"bob", "share", "alice">>}

\* Pages that show neither phrase, the two profile links being there
NoAnchorPages ==
    { [phrases |-> [ph \in Phrases |-> {}],
       handles |-> [h \in {"alice", "bob"} |-> IF h = "alice" THEN <<a>> ELSE <<b>>]] :
        a \in {120, 320}, b \in {220} }

ProximityLimit == 200    \* distance < 200

\* text.find(...): the first offset, -1 when there is none
Find(at) == IF at = {} THEN -1 ELSE CHOOSE p \in at : \A q \in at : p <= q

\* main.py, the last resort: one handle of handles_found matched with the
\* context of each phrase
MatchHandle(page, handle, found) ==
    LET handle_pos == Find({ page.handles[handle][j] : j \in 1..Len(page.handles[handle]) })
        created_context == Find(page.phrases[CreatedBy])
        royalty_context == Find(page.phrases[RoyaltiesTo])
        near(context) ==
            /\ context # -1 /\ handle_pos # -1
            /\ (IF handle_pos >= context THEN handle_pos - context ELSE context - handle_pos)
                   < ProximityLimit
        withCreator == IF near(created_context) /\ found.creator = None
                       THEN [found EXCEPT !.creator = handle] ELSE found
    IN  IF handle_pos = -1 THEN found
        ELSE IF near(royalty_context) /\ withCreator.fee = None
             THEN [withCreator EXCEPT !.fee = handle] ELSE withCreator

\* for handle in handles_found
RECURSIVE MatchLoopHandles(_, _, _, _)
MatchLoopHandles(page, handles, i, found) ==
    IF i > Len(handles) THEN found
    ELSE MatchLoopHandles(page, handles, i + 1, MatchHandle(page, handles[i], found))

\* handles_found: the handles of the page's profile links, share links left out
HandlesFound(links) == SelectSeq(links, LAMBDA h : h \notin SkippedHandles)

\* main.py: fetch_bags_token_data, method 3, entered with what the element
\* and text-pattern methods found
LastResort(page, links, found) ==
    IF found.creator # None /\ found.fee # None THEN found
    ELSE MatchLoopHandles(page, HandlesFound(links), 1, found)

\* main_hybrid.py: scrape_bags_token_page, the handles assigned by their order
ScrapeHandles(links) ==
    LET twitter_handles == SelectSeq(links, LAMBDA h : h \notin {"intent", "share"})
    IN  IF twitter_handles = <<>> THEN [creator |-> None, fee |-> None]
        ELSE [creator |-> twitter_handles[1],
              fee |-> IF Len(twitter_handles) > 1 /\ twitter_handles[2] # twitter_handles[1]
                      THEN twitter_handles[2] ELSE twitter_handles[1]]

NoScanProbe ==
    [page |-> ScanPage(100, 120, 300, 320), links |-> <<>>, ranScan |-> FALSE,
     found |-> [creator |-> None, fee |-> None],
     before |-> [creator |-> None, fee |-> None], ranLast |-> FALSE,
     last |-> [creator |-> None, fee |-> None],
     ranScrape |-> FALSE, scraped |-> [creator |-> None, fee |-> None]]

\* what the element search of main.py found before the last resort: nothing,
\* or, on a page with the phrases, the creator from the link beside 'created by'
FoundBefore(page) ==
    {[creator |-> None, fee |-> None]} \cup
    (IF page \in NoAnchorPages THEN {} ELSE {[creator |-> "alice", fee |-> None]})

InitScan ==
    /\ chain = <<>>
    /\ inbox = <<>>
    /\ seen_mints = {}
    /\ last_signature = 0
    /\ pc = [t \in Tasks |-> IF t = "ws" THEN "connect" ELSE "poll"]
    /\ cur = [t \in Tasks |-> Idle]
    /\ running = None
    /\ started = [m \in Mints |-> 0]
    /\ attempted = {}
    /\ polled = NoPoll
    /\ done = NoDone
    /\ \E p \in { q \in ScanPages : WellFormedPage(q) } \cup NoAnchorPages,
          l \in LinkOrders :
          \E f \in FoundBefore(p) :
              probe = [NoScanProbe EXCEPT !.page = p, !.links = l, !.before = f]

\* test_full_message.py: get_fee_split_data(mint_address), the page having loaded
ProbeGetFeeSplitData ==
    /\ ~probe.ranScan
    /\ probe' = [probe EXCEPT !.ranScan = TRUE,
                              !.found = GetFeeSplitData(probe.page, probe.links)]
    /\ UNCHANGED <<chain, inbox, seen_mints, last_signature, pc, cur, running, started,
                   attempted, polled, done>>

\* main.py: fetch_bags_token_data, the last resort of the fee split extraction
ProbeLastResort ==
    /\ ~probe.ranLast
    /\ probe' = [probe EXCEPT !.ranLast = TRUE,
                              !.last = LastResort(probe.page, probe.links, probe.before)]
    /\ UNCHANGED <<chain, inbox, seen_mints, last_signature, pc, cur, running, started,
                   attempted, polled, done>>

\* main_hybrid.py: scrape_bags_token_page(mint_address)
ProbeScrapeBagsTokenPage ==
    /\ ~probe.ranScrape
    /\ probe' = [probe EXCEPT !.ranScrape = TRUE, !.scraped = ScrapeHandles(probe.links)]
    /\ UNCHANGED <<chain, inbox, seen_mints, last_signature, pc, cur, running, started,
                   attempted, polled, done>>

NextScan == ProbeGetFeeSplitData \/ ProbeLastResort \/ ProbeScrapeBagsTokenPage

SpecScan == InitScan /\ [][NextScan]_vars


(***************************************************************************)
(* main.py, optimal_hybrid.py, hybrid_extraction.py: the royalty           *)
(* percentage read from the page's percentage tokens.                      *)
(***************************************************************************)
MaxTokens == 3       \* percentage tokens of an enumerated page text

\* a percentage as a count of hundredths
Pct(whole, hundredths) == whole * 100 + hundredths

\* re.findall(r'(\d+(?:\.\d+)?)%', text): the strings it can match
PercentTokens == {"0", "75", "12.5", "50", "50.01", "0.01", "150"}

\* float(match)
Float(match) ==
    CASE match = "0" -> Pct(0, 0)
      [] match = "75" -> Pct(75, 0)
      [] match = "12.5" -> Pct(12, 50)
      [] match = "50" -> Pct(50, 0)
      [] match = "50.01" -> Pct(50, 1)
      [] match = "0.01" -> Pct(0, 1)
      [] match = "150" -> Pct(150, 0)

\* if 0 < pct <= 50
InRoyaltyRangeClosed(pct) == 0 <= pct /\ pct <= Pct(50, 0)
InRoyaltyRange(pct) == 0 < pct /\ pct <= Pct(50, 0)

\* for match in percent_matches: the royalty so far (<<>> is None)
RECURSIVE MatchLoop(_, _, _)
MatchLoop(matches, i, royalty) ==
    IF i > Len(matches) THEN royalty
    ELSE IF InRoyaltyRange(Float(matches[i]))
         THEN <<Float(matches[i])>>
         ELSE MatchLoop(matches, i + 1, royalty)

\* optimal_hybrid.py, hybrid_extraction.py: the scan of the body's text
RoyaltyFromText(matches) == MatchLoop(matches, 1, <<>>)

\* main.py: for element in all_elements, each element's text scanned in
\* turn until result["royaltyPercentage"] is set
RECURSIVE ElementLoop(_, _, _)
ElementLoop(elements, i, royalty) ==
    IF i > Len(elements) THEN royalty
    ELSE LET after == MatchLoop(elements[i], 1, royalty)
         IN  IF after # <<>> THEN after ELSE ElementLoop(elements, i + 1, after)

\* find_elements(By.CSS_SELECTOR, "*"): the root element, whose text is the
\* page's whole text, then the elements holding one token each
AllElements(matches) == <<matches>> \o [i \in 1..Len(matches) |-> <<matches[i]>>]

RoyaltyFromElements(matches) == ElementLoop(AllElements(matches), 1, <<>>)

\* browser_scraper.py, method 1: the first element whose text has a fee
\* keyword ("%" is one) gives its first percentage, whatever its value
FirstPercentage(matches) == IF matches = <<>> THEN <<>> ELSE <<Float(matches[1])>>

\* browser_scraper.py, method 2: if 0 < pct_value <= 100, over the
\* percentages of the page source (taken to be those of the text)
RECURSIVE SourceLoop(_, _, _)
SourceLoop(matches, i, royalty) ==
    IF i > Len(matches) THEN royalty
    ELSE IF 0 < Float(matches[i]) /\ Float(matches[i]) <= Pct(100, 0)
         THEN <<Float(matches[i])>>
         ELSE SourceLoop(matches, i + 1, royalty)

\* extract_bags_data_with_browser: result["royaltyPercentage"] after both methods
BrowserRoyalty(matches) == SourceLoop(matches, 1, FirstPercentage(matches))

NoRoyaltyProbe ==
    [matches |-> <<>>, ranText |-> FALSE, text |-> <<>>, ranElements |-> FALSE, elements |-> <<>>,
     ranBrowser |-> FALSE, browser |-> <<>>]

InitRoyalty ==
    /\ chain = <<>>
    /\ inbox = <<>>
    /\ seen_mints = {}
    /\ last_signature = 0
    /\ pc = [t \in Tasks |-> IF t = "ws" THEN "connect" ELSE "poll"]
    /\ cur = [t \in Tasks |-> Idle]
    /\ running = None
    /\ started = [m \in Mints |-> 0]
    /\ attempted = {}
    /\ polled = NoPoll
    /\ done = NoDone
    /\ probe \in { [NoRoyaltyProbe EXCEPT !.matches = m] : m \in SeqsUpTo(PercentTokens, MaxTokens) }

\* optimal_hybrid.py: get_fee_split_fast, hybrid_extraction.py: get_fee_split_only
ProbeRoyaltyFromText ==
    /\ ~probe.ranText
    /\ probe' = [probe EXCEPT !.ranText = TRUE, !.text = RoyaltyFromText(probe.matches)]
    /\ UNCHANGED <<chain, inbox, seen_mints, last_signature, pc, cur, running, started,
                   attempted, polled, done>>

\* main.py: fetch_bags_token_data, the royalty percentage
ProbeRoyaltyFromElements ==
    /\ ~probe.ranElements
    /\ probe' = [probe EXCEPT !.ranElements = TRUE,
                              !.elements = RoyaltyFromElements(probe.matches)]
    /\ UNCHANGED <<chain, inbox, seen_mints, last_signature, pc, cur, running, started,
                   attempted, polled, done>>

\* browser_scraper.py: extract_bags_data_with_browser, the royalty percentage
ProbeBrowserRoyalty ==
    /\ ~probe.ranBrowser
    /\ probe' = [probe EXCEPT !.ranBrowser = TRUE, !.browser = BrowserRoyalty(probe.matches)]
    /\ UNCHANGED <<chain, inbox, seen_mints, last_signature, pc, cur, running, started,
                   attempted, polled, done>>

NextRoyalty == ProbeRoyaltyFromText \/ ProbeRoyaltyFromElements \/ ProbeBrowserRoyalty

SpecRoyalty == InitRoyalty /\ [][NextRoyalty]_vars


(***************************************************************************)
(* main.py, main_hybrid.py: clean_twitter_handle and the handle lines of   *)
(* format_telegram_message.  A handle is the sequence of its pieces: a     *)
(* letter, a blank, or a part of the texts the cleaning looks for.         *)
(***************************************************************************)
MaxHandleLen == 2    \* letters of an enumerated user name

At == "@"
Slash == "/"
Blank == " "
Letters == {"a", "A", "b"}

\* a profile URL prefix, piece by piece: scheme, "//", "www." or nothing, domain, "/"
Url(scheme, www, domain) == <<scheme, Slash, Slash>> \o www \o <<domain, Slash>>
XUrl == Url("https:", <<>>, "x.com")
StatusPath == <<Slash, "status", Slash>>

\* str.lower(), letter by letter
LowerLetter(ch) ==
    CASE ch = "A" -> "a"
      [] ch = "B" -> "b"
      [] OTHER -> ch
LowerHandle(handle) == [i \in 1..Len(handle) |-> LowerLetter(handle[i])]

\* handle.split(text)[0]
RECURSIVE BeforeFirst(_, _)
BeforeFirst(handle, text) ==
    IF Len(handle) < Len(text) THEN handle
    ELSE IF SubSeq(handle, 1, Len(text)) = text THEN <<>>
    ELSE <<Head(handle)>> \o BeforeFirst(Tail(handle), text)

\* handle.replace(text, "")
RECURSIVE ReplaceAll(_, _)
ReplaceAll(handle, text) ==
    IF Len(handle) < Len(text) THEN handle
    ELSE IF SubSeq(handle, 1, Len(text)) = text
         THEN ReplaceAll(SubSeq(handle, Len(text) + 1, Len(handle)), text)
         ELSE <<Head(handle)>> \o ReplaceAll(Tail(handle), text)

\* the texts the replace chain removes, in its order
Replaced ==
    << <<At>>, XUrl, Url("https:", <<>>, "twitter.com"),
       Url("https:", <<"www.">>, "x.com"), Url("https:", <<"www.">>, "twitter.com"),
       <<"x.com", Slash>>, <<"twitter.com", Slash>> >>

RECURSIVE ReplaceChain(_, _)
ReplaceChain(handle, i) ==
    IF i > Len(Replaced) THEN handle
    ELSE ReplaceChain(ReplaceAll(handle, Replaced[i]), i + 1)

\* .replace("@", "").replace("https://x.com/", "") ... .replace("twitter.com/", "")
RemovePrefixesAtOnly(handle) == ReplaceAll(handle, <<At>>)
RemovePrefixes(handle) == ReplaceChain(handle, 1)

\* .strip()
RECURSIVE StripHandle(_)
StripHandle(handle) ==
    IF handle = <<>> THEN handle
    ELSE IF Head(handle) = Blank THEN StripHandle(Tail(handle))
    ELSE IF handle[Len(handle)] = Blank THEN StripHandle(SubSeq(handle, 1, Len(handle) - 1))
    ELSE handle

\* clean_twitter_handle(handle); None is <<None>>
NoHandle == <<None>>
CleanTwitterHandle(handle) ==
    IF handle = NoHandle \/ handle = <<>> THEN <<>>
    ELSE BeforeFirst(StripHandle(RemovePrefixes(BeforeFirst(handle, StatusPath))), <<Slash>>)

\* test_full_message.py: clean_twitter_handle, which has no "/status/" step
TestCleanTwitterHandle(handle) ==
    IF handle = NoHandle \/ handle = <<>> THEN <<>>
    ELSE BeforeFirst(StripHandle(RemovePrefixes(handle)), <<Slash>>)

\* creator_clean.lower() != royalty_clean.lower()
HandlesDifferExact(creator, royalty) == creator # royalty
HandlesDiffer(creator, royalty) == LowerHandle(creator) # LowerHandle(royalty)

Line(label, handle) == [label |-> label, handle |-> handle]

\* main.py: format_telegram_message, the lines about the handles
HandleLines(creator_twitter, royalty_twitter) ==
    LET creator_clean == CleanTwitterHandle(creator_twitter)
        royalty_clean == CleanTwitterHandle(royalty_twitter)
    IN  IF creator_clean # <<>> /\ royalty_clean # <<>> /\ HandlesDiffer(creator_clean, royalty_clean)
        THEN <<Line("Creator", creator_clean), Line("Fee Recipient", royalty_clean)>>
        ELSE IF creator_clean # <<>> THEN <<Line("Creator", creator_clean)>>
        ELSE IF royalty_clean # <<>> THEN <<Line("Creator", royalty_clean)>>
        ELSE <<>>

\* main_hybrid.py: format_telegram_message, the lines about the handles
HybridHandleLines(creator_twitter, royalty_twitter) ==
    LET creator_clean == CleanTwitterHandle(creator_twitter)
        royalty_clean == CleanTwitterHandle(royalty_twitter)
    IN  IF creator_clean # <<>> /\ royalty_clean # <<>> /\ HandlesDiffer(creator_clean, royalty_clean)
        THEN <<Line("Creator", creator_clean), Line("Fee Recipient", royalty_clean)>>
        ELSE IF creator_clean # <<>> /\ royalty_clean # <<>>
                  /\ ~HandlesDiffer(creator_clean, royalty_clean)
        THEN <<Line("Twitter", creator_clean)>>
        ELSE IF creator_clean # <<>> THEN <<Line("Creator", creator_clean)>>
        ELSE IF royalty_clean # <<>> THEN <<Line("Fee Recipient", royalty_clean)>>
        ELSE <<>>

\* token_data["createdBy"]["twitter"], token_data["royaltiesTo"]["twitter"]:
\* None, empty, or a user name, bare or as a mention, a profile URL or a
\* tweet URL
UserNames == SeqsUpTo(Letters, MaxHandleLen) \ { <<>> }
HandlePrefixes == { <<>>, <<At>>, XUrl }
HandleSuffixes == { <<>>, StatusPath \o <<"1">> }
RawHandles ==
    {NoHandle, <<>>} \cup
    { pre \o user \o suf : pre \in HandlePrefixes, user \in UserNames, suf \in HandleSuffixes }

NoFormatProbe ==
    [creator |-> NoHandle, royalty |-> NoHandle,
     ranFormat |-> FALSE, lines |-> <<>>, ranHybrid |-> FALSE, hybrid |-> <<>>]

InitFormat ==
    /\ chain = <<>>
    /\ inbox = <<>>
    /\ seen_mints = {}
    /\ last_signature = 0
    /\ pc = [t \in Tasks |-> IF t = "ws" THEN "connect" ELSE "poll"]
    /\ cur = [t \in Tasks |-> Idle]
    /\ running = None
    /\ started = [m \in Mints |-> 0]
    /\ attempted = {}
    /\ polled = NoPoll
    /\ done = NoDone
    /\ probe \in { [NoFormatProbe EXCEPT !.creator = c, !.royalty = r] :
                      c \in RawHandles, r \in RawHandles }

\* main.py: format_telegram_message(mint_address, token_data)
ProbeFormatTelegramMessage ==
    /\ ~probe.ranFormat
    /\ probe' = [probe EXCEPT !.ranFormat = TRUE,
                              !.lines = HandleLines(probe.creator, probe.royalty)]
    /\ UNCHANGED <<chain, inbox, seen_mints, last_signature, pc, cur, running, started,
                   attempted, polled, done>>

\* main_hybrid.py: format_telegram_message(mint_address, token_data)
ProbeHybridFormatTelegramMessage ==
    /\ ~probe.ranHybrid
    /\ probe' = [probe EXCEPT !.ranHybrid = TRUE,
                              !.hybrid = HybridHandleLines(probe.creator, probe.royalty)]
    /\ UNCHANGED <<chain, inbox, seen_mints, last_signature, pc, cur, running, started,
                   attempted, polled, done>>

NextFormat == ProbeFormatTelegramMessage \/ ProbeHybridFormatTelegramMessage

SpecFormat == InitFormat /\ [][NextFormat]_vars


(***************************************************************************)
(* clean_twitter_handle on one handle.                                     *)
(***************************************************************************)
MaxPieces == 3       \* pieces of an enumerated free-form handle

HandlePieces ==
    {At, Slash, Blank, "https:", "http:", "www.", "x.com", "twitter.com", "status", "a", "A", "b"}

\* the profile-URL prefixes in use: http or https, with or without www.,
\* twitter.com or x.com
ProfilePrefixes ==
    { Url(scheme, www, domain) : scheme \in {"http:", "https:"}, www \in {<<>>, <<"www.">>},
                                 domain \in {"x.com", "twitter.com"} }

\* handle: None, any short text, or a user name with a mention sign or a
\* profile prefix before it, a path after it and blanks around it
CleanInputs ==
    {NoHandle} \cup SeqsUpTo(HandlePieces, MaxPieces) \cup
    { lead \o pre \o user \o suf \o trail :
        lead \in {<<>>, <<Blank>>}, pre \in ProfilePrefixes \cup {<<>>, <<At>>},
        user \in UserNames, suf \in {<<>>, StatusPath \o <<"123">>, <<Slash, "a">>},
        trail \in {<<>>, <<Blank>>} }

InitClean ==
    /\ chain = <<>>
    /\ inbox = <<>>
    /\ seen_mints = {}
    /\ last_signature = 0
    /\ pc = [t \in Tasks |-> IF t = "ws" THEN "connect" ELSE "poll"]
    /\ cur = [t \in Tasks |-> Idle]
    /\ running = None
    /\ started = [m \in Mints |-> 0]
    /\ attempted = {}
    /\ polled = NoPoll
    /\ done = NoDone
    /\ probe \in { [handle |-> h, ranClean |-> FALSE, clean |-> <<>>,
                    ranTest |-> FALSE, test |-> <<>>] : h \in CleanInputs }

\* main.py, main_hybrid.py: clean_twitter_handle(handle)
ProbeCleanTwitterHandle ==
    /\ ~probe.ranClean
    /\ probe' = [probe EXCEPT !.ranClean = TRUE, !.clean = CleanTwitterHandle(probe.handle)]
    /\ UNCHANGED <<chain, inbox, seen_mints, last_signature, pc, cur, running, started,
                   attempted, polled, done>>

\* test_full_message.py: clean_twitter_handle(handle)
ProbeTestCleanTwitterHandle ==
    /\ ~probe.ranTest
    /\ probe' = [probe EXCEPT !.ranTest = TRUE, !.test = TestCleanTwitterHandle(probe.handle)]
    /\ UNCHANGED <<chain, inbox, seen_mints, last_signature, pc, cur, running, started,
                   attempted, polled, done>>

NextClean == ProbeCleanTwitterHandle \/ ProbeTestCleanTwitterHandle

SpecClean == InitClean /\ [][NextClean]_vars


(***************************************************************************)
(* main.py, test_full_message.py: escape_markdown.  A text is the sequence *)
(* of its characters.                                                      *)
(***************************************************************************)
MaxText == 3         \* characters of an enumerated text

\* special_chars, in the order of the list ("backquote" stands for the
\* grave accent, which a string of this language cannot hold)
SpecialCharsWithBackslash ==
    <<"_", "*", "[", "]", "(", ")", "~", "backquote", ">", "#", "+", "-", "=", "|", "{", "}", ".", "!", "\\">>
SpecialChars ==
    <<"_", "*", "[", "]", "(", ")", "~", "backquote", ">", "#", "+", "-", "=", "|", "{", "}", ".", "!">>

\* text.replace(char, f'\\{char}')
RECURSIVE EscapeChar(_, _)
EscapeChar(text, char) ==
    IF text = <<>> THEN <<>>
    ELSE (IF Head(text) = char THEN <<"\\", char>> ELSE <<Head(text)>>)
             \o EscapeChar(Tail(text), char)

\* for char in special_chars
RECURSIVE EscapeLoop(_, _)
EscapeLoop(text, i) ==
    IF i > Len(SpecialChars) THEN text
    ELSE EscapeLoop(EscapeChar(text, SpecialChars[i]), i + 1)

\* escape_markdown(text); None is <<None>>
EscapeMarkdown(text) ==
    IF text = <<None>> \/ text = <<>> THEN <<>> ELSE EscapeLoop(text, 1)

\* text: None, every short text over a few characters, each special
\* character alone and all of them in a row
TextChars == {"a", " ", "_", ".", "!", "\\"}
EscapeInputs ==
    {<<None>>, SpecialChars} \cup SeqsUpTo(TextChars, MaxText)
        \cup { <<SpecialChars[i]>> : i \in 1..Len(SpecialChars) }

InitEscape ==
    /\ chain = <<>>
    /\ inbox = <<>>
    /\ seen_mints = {}
    /\ last_signature = 0
    /\ pc = [t \in Tasks |-> IF t = "ws" THEN "connect" ELSE "poll"]
    /\ cur = [t \in Tasks |-> Idle]
    /\ running = None
    /\ started = [m \in Mints |-> 0]
    /\ attempted = {}
    /\ polled = NoPoll
    /\ done = NoDone
    /\ probe \in { [text |-> x, ranEscape |-> FALSE, escaped |-> <<>>,
                    ranAgain |-> FALSE, again |-> <<>>] : x \in EscapeInputs }

\* escape_markdown(text)
ProbeEscapeMarkdown ==
    /\ ~probe.ranEscape
    /\ probe' = [probe EXCEPT !.ranEscape = TRUE, !.escaped = EscapeMarkdown(probe.text)]
    /\ UNCHANGED <<chain, inbox, seen_mints, last_signature, pc, cur, running, started,
                   attempted, polled, done>>

\* escape_markdown(escape_markdown(text)): a caller escaping an escaped text
ProbeEscapeAgain ==
    /\ probe.ranEscape /\ ~probe.ranAgain
    /\ probe' = [probe EXCEPT !.ranAgain = TRUE, !.again = EscapeMarkdown(probe.escaped)]
    /\ UNCHANGED <<chain, inbox, seen_mints, last_signature, pc, cur, running, started,
                   attempted, polled, done>>

NextEscape == ProbeEscapeMarkdown \/ ProbeEscapeAgain

SpecEscape == InitEscape /\ [][NextEscape]_vars


(***************************************************************************)
(* Properties.                                                             *)
(***************************************************************************)
PastGate == {"scrape", "helius", "send"} \cup SendPcs

\* C1: whatever the interleaving of the streaming and the polling path, the
\* metadata fetch is started at most once per identifier, and the two tasks
\* are never both past the seen_mints gate with the same identifier.
C1_AdmittedOnce ==
    /\ \A m \in Mints : started[m] <= 1
    /\ ~(/\ pc["ws"] \in PastGate
         /\ pc["poll"] \in PastGate
         /\ cur["ws"].mint = cur["poll"].mint)

\* C1 witness: the polling path delivers to the gate the identifier whose
\* notification the streaming path is still sending.
C1_Witness ==
    /\ pc["ws"] \in SendPcs
    /\ pc["poll"] = "gate"
    /\ cur["poll"].mint = cur["ws"].mint

MarkerLines == {LogInvoke, LogCreate, LogUpper}

IsMintKey(k) ==
    k \notin {METADATA_PROGRAM_ID, BAGS_UPDATE_AUTHORITY} /\ KeyLen(k) >= 44

\* C2: for a transaction reported as successful, an identifier is handed to
\* process_new_token iff a log line carries a metadata-creation marker, the
\* account keys contain BAGS_UPDATE_AUTHORITY and some key is neither of the
\* two program identifiers and at least 44 long; the identifier is then the
\* first such key in list order, and no second one is handed.
C2_FirstQualifyingKey ==
    (probe.ranMain /\ probe.tx.err = None) =>
        LET keys == probe.tx.keys
            logs == probe.tx.logs
            h == probe.handed
        IN  /\ Len(h) <= 1
            /\ (h # <<>>) <=>
                  /\ \E i \in 1..Len(logs) : logs[i] \in MarkerLines
                  /\ \E i \in 1..Len(keys) : keys[i] = BAGS_UPDATE_AUTHORITY
                  /\ \E i \in 1..Len(keys) : IsMintKey(keys[i])
            /\ (h # <<>>) =>
                  \E i \in 1..Len(keys) :
                      /\ keys[i] = h[1]
                      /\ IsMintKey(keys[i])
                      /\ \A j \in 1..(i - 1) : ~IsMintKey(keys[j])

\* C2 witness: the identifier handed on is not the first account key.
C2_Witness ==
    /\ probe.ranMain
    /\ probe.handed # <<>>
    /\ probe.tx.keys[1] = SystemProgram
    /\ probe.handed[1] = probe.tx.keys[3]

\* C3: monitor_websocket never stops; it leaves Subscribing and Listening
\* only into the handling of a message or back to Disconnected (the
\* reconnect sleep, or the next connect); and once in the reconnect sleep it
\* goes on to the next connection attempt.
C3_WsReconnects ==
    /\ [](pc["ws"] # "dead")
    /\ [][(pc["ws"] \in {"subscribe", "listen"} /\ pc'["ws"] # pc["ws"])
            => pc'["ws"] \in {"listen", "lookup", "sleep", "connect"}]_vars
    /\ (pc["ws"] = "sleep") ~> (pc["ws"] = "connect")

\* C3 witness: the connection failed after the detector had already listened
\* and handled a launch.
C3_Witness == pc["ws"] = "sleep" /\ seen_mints # {}

\* C4: at the end of a poll every signature of the answer that is newer than
\* the last-seen one was handed to check_transaction_for_token_creation.
C4_PollHandsEveryNewer == polled.newer \subseteq polled.handed

\* C5: while a token's notification is in progress, the streaming loop can
\* take the next queued notification and the polling loop can poll.
C5_FireAndForget ==
    /\ (pc["ws"] \in SendPcs /\ inbox # <<>>) => ENABLED WsRecvNotification
    /\ (pc["poll"] \in SendPcs) => ENABLED (\E resp \in SigResponses : PollSignatures(resp))

\* C6: for every identifier admitted to seen_mints a Telegram send is
\* eventually issued.
C6_AdmittedIsNotified == \A m \in Mints : (m \in seen_mints) ~> (m \in attempted)

\* C6 witness: the page adapter failed and the basic notification is sent.
C6_Witness ==
    \E t \in Tasks :
        /\ pc[t] = "basic"
        /\ cur[t].page = <<>>
        /\ cur[t].mint \in attempted

\* C7: in the first message sent for a token, a failed page adapter leaves
\* the on-chain name, symbol and image in place, and a failed on-chain
\* adapter leaves the page's creator and fee-recipient handles in place.
C7_FailedAdapterIsEmptyPart ==
    \A t \in Tasks :
        pc[t] \in {"photo", "text", "basic"} =>
            /\ (cur[t].page = <<>> /\ cur[t].asset = <<HeliusFull>>) =>
                  /\ cur[t].data # <<>>
                  /\ cur[t].data[1].name = HeliusFull.name
                  /\ cur[t].data[1].symbol = HeliusFull.symbol
                  /\ cur[t].data[1].image = HeliusFull.image
            /\ (cur[t].page = <<PageFull>> /\ cur[t].asset = <<HeliusEmpty>>) =>
                  /\ cur[t].data # <<>>
                  /\ cur[t].data[1].createdBy = PageFull.creator
                  /\ cur[t].data[1].royaltiesTo = PageFull.fee

\* C8: neither loop ever ends, whatever fails.
C8_LoopsNeverEnd == \A t \in Tasks : pc[t] # "dead"

\* C8 witness: the streaming loop is in its reconnect sleep after a
\* transport failure while the polling loop's getTransaction has just raised.
C8_Witness ==
    /\ pc["ws"] = "sleep"
    /\ pc["poll"] = "inspect"
    /\ cur["poll"].resp = "exc"

\* C9: no detection entry point hands on an identifier for a transaction
\* reported as failed.
C9_FailedNeverCandidate ==
    (probe.tx.err # None) =>
        /\ probe.ranMain => probe.handed = <<>>
        /\ probe.ranLegacy => probe.legacy = <<>>

C12_RepeatHasNoEffect ==
    /\ [][\A t \in Tasks :
            (pc[t] = "gate" /\ pc'[t] # "gate") =>
                IF cur[t].mint \in seen_mints
                THEN /\ pc'[t] = ReturnPc(t)
                     /\ seen_mints' = seen_mints
                     /\ started' = started
                     /\ attempted' = attempted
                ELSE pc'[t] = "add"]_vars
    /\ [][\A t \in Tasks :
            (pc[t] = "add" /\ pc'[t] # "add") =>
                seen_mints' = seen_mints \cup {cur[t].mint}]_vars

\* C12 witness: the polling path has just been turned away at the gate with
\* an identifier that was admitted, fetched and notified once before.
C12_Witness ==
    /\ done = Done("poll", MintA, "refused")
    /\ started[MintA] = 1
    /\ MintA \in attempted

\* C13: seen_mints starts empty, no step removes an identifier from it, and
\* the insert is never made for an identifier that is already in it.
C13_SeenAppendOnly ==
    /\ seen_mints = {}
    /\ [][seen_mints \subseteq seen_mints']_vars
    /\ [][\A t \in Tasks :
            (pc[t] = "add" /\ pc'[t] # "add") => cur[t].mint \notin seen_mints]_vars

\* C13 witness: every send for an admitted identifier has raised and the
\* identifier is still in seen_mints.
C13_Witness ==
    \E t \in Tasks, m \in Mints :
        /\ done = Done(t, m, "unsent")
        /\ m \in seen_mints

\* C14: when the on-chain asset adapter's record has a name, the reconciled
\* name is that name, whatever the string; without one it is the secondary
\* source's name, and 'Unknown Token' when that has none either.  Stated for
\* fetch_bags_token_data (asset record over page) and for get_metadata_fast
\* (on-chain metadata name over the name behind the uri).
C14_PrimaryNameWins ==
    /\ probe.ranFetch =>
           LET hel == GetHeliusMetadata(probe.resp, MintA)
           IN  probe.data[1].name = IF hel.name # None THEN hel.name ELSE probe.page.name
    /\ probe.ranFast =>
           LET a == probe.resp.name
               b == probe.uri
           IN  probe.fast = IF a.k = "str" THEN a.s
                            ELSE IF b.k = "str" THEN b.s
                            ELSE UnknownToken

\* The fee fields of a reconciled record.
FeeFields(data) ==
    <<data.createdBy, data.royaltiesTo, data.royaltyPercentage>>

\* Asset answers that differ from r at most in the attribute list and the links.
SameButSocial(r) ==
    { q \in AssetResponses :
        /\ q.kind = r.kind /\ q.name = r.name /\ q.symbol = r.symbol
        /\ q.image = r.image /\ q.external_url = r.external_url }

\* C15: the creator handle, the fee-recipient handle and the royalty
\* percentage of the record fetch_bags_token_data returns are the page's: any
\* getAsset answer that differs from the one received only in its attributes
\* and links (the social data) gives the same three values.
C15_FeeFieldsFromPageOnly ==
    probe.ranFetch =>
        /\ FeeFields(probe.data[1]) = <<probe.page.creator, probe.page.fee, probe.page.royalty>>
        /\ \A q \in SameButSocial(probe.resp) :
               FeeFields(MergeTokenData(probe.page, GetHeliusMetadata(q, MintA)))
                   = FeeFields(probe.data[1])

\* C15 witness: the record was built from an answer that carries a twitter
\* handle, another answer differing only in social data carries none, and
\* the page named no creator.
C15_Witness ==
    /\ probe.ranFetch
    /\ probe.page = PageBare
    /\ GetHeliusMetadata(probe.resp, MintA).twitter # None
    /\ \E q \in SameButSocial(probe.resp) : GetHeliusMetadata(q, MintA).twitter = None
    /\ probe.data[1].createdBy = None

\* C16: on a page where 'alice' occurs once within 50 characters of
\* 'created by' and 'bob' once within 50 characters of 'royalties to', the
\* phrase-window scan returns creator 'alice' and fee recipient 'bob',
\* whichever order the two profile links come in and wherever the two
\* passages lie in the page.
C16_ProximityOrderFree ==
    (probe.ranScan /\ probe.page \in ScanPages)
        => probe.found = [creator |-> "alice", fee |-> "bob"]

\* The royalty the claim prescribes for a token list: the first token whose
\* value is above 0 and at most 50, none when there is no such token.
FirstInRange(matches) ==
    LET ok == { i \in 1..Len(matches) :
                  Float(matches[i]) > 0 /\ Float(matches[i]) <= Pct(50, 0) }
    IN  IF ok = {} THEN <<>>
        ELSE <<Float(matches[CHOOSE i \in ok : \A j \in ok : i <= j])>>

\* C17: the royalty is the first percentage token, in scan order, whose
\* value is strictly above 0 and at most 50; earlier tokens outside the
\* range are skipped, and the royalty is absent when no token is in range.
\* The tokens 0, 75, 12.5 give 12.5.
C17_FirstTokenInRange ==
    /\ probe.ranText => probe.text = FirstInRange(probe.matches)
    /\ probe.ranElements => probe.elements = FirstInRange(probe.matches)
    /\ (probe.ranText /\ probe.matches = <<"0", "75", "12.5">>) => probe.text = <<Pct(12, 50)>>
    /\ (probe.ranElements /\ probe.matches = <<"0", "75", "12.5">>)
           => probe.elements = <<Pct(12, 50)>>

\* C17 witness: both scans ran over the tokens 0, 75, 12.5 and gave 12.5.
C17_Witness ==
    /\ probe.matches = <<"0", "75", "12.5">>
    /\ probe.ranText /\ probe.text = <<Pct(12, 50)>>
    /\ probe.ranElements /\ probe.elements = <<Pct(12, 50)>>

\* The two-line form: a Creator line followed by a Fee Recipient line.
SplitShown(lines) ==
    /\ Len(lines) = 2
    /\ lines[1].label = "Creator" /\ lines[2].label = "Fee Recipient"

\* Two cleaned handles that are the same up to letter case.
SameLetter(x, y) == x = y \/ {x, y} \in {{"a", "A"}, {"b", "B"}}
SameIgnoringCase(c, r) ==
    Len(c) = Len(r) /\ \A i \in 1..Len(c) : SameLetter(c[i], r[i])

Absent(v) == v.k \in {"missing", "null"}

\* C19: get_helius_metadata reports a missing asset ("result": null) as a
\* failure its caller can tell from the record of an asset that is there but
\* has no field: the two outcomes are never equal.
C19_MissingAssetIsFailure ==
    ( /\ probe.ranHelius
      /\ probe.resp.kind = "asset"
      /\ Absent(probe.resp.name) /\ Absent(probe.resp.symbol) /\ Absent(probe.resp.image)
      /\ Absent(probe.resp.external_url)
      /\ Absent(probe.resp.attributes) /\ Absent(probe.resp.links) )
        => probe.hel[1] # GetHeliusMetadata(NoAsset("noasset"), MintA)

\* A text field of the answer that is well-formed: a string with something
\* other than blanks in it.
WellFormedText(v) == v.k = "str" /\ Strip(v.s) # ""

\* C20: whatever is missing, null or wrong-shaped among name, symbol, image,
\* links and the attribute list of a getAsset answer, get_helius_metadata
\* returns every other field that is well-formed in that answer.
C20_FieldsIndependentlyTolerant ==
    (probe.ranHelius /\ probe.resp.kind = "asset") =>
        LET hel == probe.hel[1]
            resp == probe.resp
        IN  /\ WellFormedText(resp.name) => hel.name = Strip(resp.name.s)
            /\ WellFormedText(resp.symbol) => hel.symbol = Strip(resp.symbol.s)
            /\ WellFormedText(resp.image) => hel.image = Strip(resp.image.s)
            /\ WellFormedText(resp.external_url) => hel.website = Strip(resp.external_url.s)

\* A bare handle: no '@', no '/', no blank at either end (so no URL prefix,
\* every one of which has a '/').
Bare(h) ==
    /\ h # NoHandle
    /\ \A i \in 1..Len(h) : h[i] \notin {At, Slash}
    /\ h # <<>> => (Head(h) # Blank /\ h[Len(h)] # Blank)

\* text = before \o h \o after for a bare h
Wraps(text, before, after) ==
    /\ Len(text) >= Len(before) + Len(after)
    /\ SubSeq(text, 1, Len(before)) = before
    /\ SubSeq(text, Len(text) - Len(after) + 1, Len(text)) = after
    /\ Bare(SubSeq(text, Len(before) + 1, Len(text) - Len(after)))
Inner(text, before, after) == SubSeq(text, Len(before) + 1, Len(text) - Len(after))

\* C21: clean_twitter_handle leaves a bare handle h as it is, and cleaning
\* the result again changes nothing; '@' + h, 'https://x.com/' + h and
\* 'https://twitter.com/' + h + '/status/123' are all cleaned to h.
C21_CleanIsProjection ==
    probe.ranClean =>
        LET x == probe.handle
            TwitterUrl == Url("https:", <<>>, "twitter.com")
            Tweet == StatusPath \o <<"123">>
        IN  /\ Bare(x) => (probe.clean = x /\ CleanTwitterHandle(probe.clean) = probe.clean)
            /\ Wraps(x, <<At>>, <<>>) => probe.clean = Inner(x, <<At>>, <<>>)
            /\ Wraps(x, XUrl, <<>>) => probe.clean = Inner(x, XUrl, <<>>)
            /\ Wraps(x, TwitterUrl, Tweet) => probe.clean = Inner(x, TwitterUrl, Tweet)

\* C21 witness: a tweet URL of user 'Ab' was cleaned to 'Ab'.
C21_Witness ==
    /\ probe.handle = Url("https:", <<>>, "twitter.com") \o <<"A", "b">> \o StatusPath \o <<"123">>
    /\ probe.ranClean
    /\ probe.clean = <<"A", "b">>

\* A cleaned handle as the claim describes it: the user name when the input
\* is a profile prefix followed by a bare handle; without '/' and without a
\* blank at either end whatever the input.
CleanedAsClaimed(x, cleaned) ==
    /\ \A p \in ProfilePrefixes : Wraps(x, p, <<>>) => cleaned = Inner(x, p, <<>>)
    /\ \A i \in 1..Len(cleaned) : cleaned[i] # Slash
    /\ cleaned # <<>> => (Head(cleaned) # Blank /\ cleaned[Len(cleaned)] # Blank)

\* C27: clean_twitter_handle strips every known profile-URL prefix (http and
\* https, twitter.com and x.com), so that prefix + bare handle is cleaned to
\* the handle, and its result on any input has no '/' and no blank at either
\* end.
C27_StripsEveryPrefix ==
    /\ probe.ranClean => CleanedAsClaimed(probe.handle, probe.clean)
    /\ probe.ranTest => CleanedAsClaimed(probe.handle, probe.test)

\* The 18 reserved characters.
Reserved ==
    {"_", "*", "[", "]", "(", ")", "~", "backquote", ">", "#", "+", "-", "=", "|", "{", "}", ".", "!"}

\* One pass from left to right that puts a backslash before each reserved
\* character.
RECURSIVE OnePass(_)
OnePass(text) ==
    IF text = <<>> THEN <<>>
    ELSE (IF Head(text) \in Reserved THEN <<"\\", Head(text)>> ELSE <<Head(text)>>)
             \o OnePass(Tail(text))

ReservedIn(text) == Cardinality({ i \in 1..Len(text) : text[i] \in Reserved })

\* C22: escape_markdown puts exactly one backslash before every occurrence
\* of each of the 18 reserved characters and changes nothing else, as one
\* pass from left to right would; escaping the escaped text again puts a
\* second backslash before each reserved character.
C22_EscapeOnePass ==
    /\ Cardinality(Reserved) = 18
    /\ (probe.ranEscape /\ probe.text # <<None>>) =>
           /\ probe.escaped = OnePass(probe.text)
           /\ Len(probe.escaped) = Len(probe.text) + ReservedIn(probe.text)
    /\ (probe.ranAgain /\ probe.text # <<None>>) =>
           /\ probe.again = OnePass(OnePass(probe.text))
           /\ Len(probe.again) = Len(probe.text) + 2 * ReservedIn(probe.text)
           /\ ReservedIn(probe.text) > 0 => probe.again # probe.escaped

\* C22 witness: 'a_.' was escaped to 'a\_\.' and, escaped again, to 'a\\_\\.'.
C22_Witness ==
    /\ probe.text = <<"a", "_", ".">>
    /\ probe.ranEscape /\ probe.escaped = <<"a", "\\", "_", "\\", ".">>
    /\ probe.ranAgain /\ probe.again = <<"a", "\\", "\\", "_", "\\", "\\", ".">>

\* A later step of a scan keeps a role an earlier step assigned.
Keeps(f, g) ==
    /\ f.creator # None => g.creator = f.creator
    /\ f.fee # None => g.fee = f.fee

Nobody == [creator |-> None, fee |-> None]

\* C23: in the scan over the profile links the first match wins per role (a
\* creator or fee recipient once assigned is kept by every later link), and
\* on a page whose creator and fee recipient are different handles no handle
\* ends up in both roles.
C23_FirstMatchWins ==
    LET links == probe.links
        upTo(k) == SubSeq(links, 1, k)
    IN  /\ probe.ranScan =>
               /\ \A k \in 0..(Len(links) - 1) :
                      Keeps(ScanLinks(probe.page, upTo(k), 1, Nobody),
                            ScanLinks(probe.page, upTo(k + 1), 1, Nobody))
               /\ (probe.page \in ScanPages /\ probe.found.creator # None)
                      => probe.found.creator # probe.found.fee
        /\ probe.ranLast =>
               /\ \A k \in 0..(Len(links) - 1) :
                      Keeps(LastResort(probe.page, upTo(k), probe.before),
                            LastResort(probe.page, upTo(k + 1), probe.before))
               /\ Keeps(probe.before, probe.last)
               /\ (probe.page \in ScanPages /\ probe.last.creator # None)
                      => probe.last.creator # probe.last.fee

\* A role is anchored: it is absent, or the page shows the role's phrase and
\* the handle stands within the window around it.
Anchored(page, handle, phrase) ==
    \/ handle = None
    \/ \E p \in page.phrases[phrase] : \E j \in 1..Len(page.handles[handle]) :
           LET pos == page.handles[handle][j]
           IN  pos - p <= Window /\ p - pos <= Window

\* C24: a page adapter's creator handle is non-null only if the page shows
\* 'created by' matched to that handle, and its fee-recipient handle only if
\* the page shows 'royalties to' matched to it; no role is filled from the
\* position or order of the links.
C24_NoOrdinalGuess ==
    /\ probe.ranLast =>
           /\ Anchored(probe.page, probe.last.creator, CreatedBy)
           /\ Anchored(probe.page, probe.last.fee, RoyaltiesTo)
    /\ probe.ranScrape =>
           /\ Anchored(probe.page, probe.scraped.creator, CreatedBy)
           /\ Anchored(probe.page, probe.scraped.fee, RoyaltiesTo)

\* A royalty as the invariant allows it: absent, or above 0 and at most 100.
RoyaltyAllowed(royalty) ==
    royalty = <<>> \/ (royalty[1] > 0 /\ royalty[1] <= Pct(100, 0))

\* C25: the royalty percentage of every record an extractor returns is
\* absent or strictly above 0 and at most 100; a percentage token outside
\* that range is never stored.
C25_RoyaltyInRange ==
    /\ probe.ranText => RoyaltyAllowed(probe.text)
    /\ probe.ranElements => RoyaltyAllowed(probe.elements)
    /\ probe.ranBrowser => RoyaltyAllowed(probe.browser)

\* The handle lines the fallback-labelling rule prescribes when at most one
\* of the two cleaned handles is there.
OneHandleLines(c, r) ==
    IF c = <<>> /\ r # <<>> THEN <<Line("Creator", r)>>
    ELSE IF c # <<>> /\ r = <<>> THEN <<Line("Creator", c)>>
    ELSE <<>>

\* C26: with a fee-recipient handle and no creator, format_telegram_message
\* shows the handle on one line labelled 'Creator' and no 'Fee Recipient'
\* line; with a creator only it shows exactly one 'Creator' line; with
\* neither it shows no handle line.
C26_FallbackLabel ==
    LET c == CleanTwitterHandle(probe.creator)
        r == CleanTwitterHandle(probe.royalty)
    IN  (c = <<>> \/ r = <<>>) =>
            /\ probe.ranFormat => probe.lines = OneHandleLines(c, r)
            /\ probe.ranHybrid => probe.hybrid = OneHandleLines(c, r)

\* C28: in fetch_bags_token_data, when the on-chain asset adapter returns no
\* symbol and the page text holds a '$TICKER' token, the record's symbol is
\* '$' followed by the first ticker the step keeps, not the default
\* 'UNKNOWN'.
C28_TickerFallback ==
    LET kept == SelectSeq(probe.page.tickers, LAMBDA sym : TickerLen(sym) <= 10)
    IN  ( /\ probe.ranFetch
          /\ GetHeliusMetadata(probe.resp, MintA).symbol = None
          /\ kept # <<>> )
        => /\ probe.data[1].symbol = Dollar(kept[1])
           /\ probe.data[1].symbol # UnknownSymbol

\* C29: monitor_websocket never starts a connection attempt after an earlier
\* one without the 5-second sleep between them: whichever way a connection
\* ends (connect error, send error, receive error, the server closing the
\* stream), the task reaches its next connect only out of the sleep.
C29_SleepBeforeReconnect ==
    [][(pc["ws"] # "connect" /\ pc'["ws"] = "connect") => pc["ws"] = "sleep"]_vars

\* The steps of send_telegram_message for task t, from the call to the
\* return: the channel order the function keeps.
SendOrder(t) ==
    LET hasImage == cur[t].data[1].image # None
        sent == done' # NoDone /\ done'[1].outcome = "sent"
    IN  /\ (pc[t] = "send" /\ cur[t].data # <<>> /\ pc'[t] # "send") =>
               pc'[t] = IF hasImage THEN "photo" ELSE "text"
        /\ (pc[t] # "text" /\ pc'[t] = "text") =>
               \/ pc[t] = "send" /\ ~hasImage
               \/ pc[t] = "photo" /\ ~sent
        /\ (pc[t] # "emergency" /\ pc'[t] = "emergency") => (pc[t] = "text" /\ ~sent)
        /\ (pc[t] \in {"photo", "text", "emergency"} /\ pc'[t] # pc[t]) =>
               \/ sent /\ pc'[t] = ReturnPc(t) /\ done'[1].task = t
               \/ ~sent /\ pc[t] = "photo" /\ pc'[t] = "text"
               \/ ~sent /\ pc[t] = "text" /\ pc'[t] = "emergency"
               \/ /\ pc[t] = "emergency" /\ pc'[t] = ReturnPc(t)
                  /\ done' = Done(t, cur[t].mint, "unsent")

\* C30: for one token, send_telegram_message tries the photo send first
\* exactly when the record has an image, the text send only when there is no
\* image or the photo send failed, the emergency text only when the text
\* send failed; a send that succeeds ends the function, so at most one
\* message is delivered, and the last failure is logged, the function
\* returning to its caller.
C30_SendOrder ==
    [][\A t \in Tasks : SendOrder(t)]_vars

\* C30 witness: a record with an image has had its photo send and its text
\* send fail, and the emergency text is the call in flight.
C30_Witness ==
    \E t \in Tasks : pc[t] = "emergency" /\ cur[t].data # <<>> /\ cur[t].data[1].image # None

=============================================================================
